---- MODULE Spec2Model ----
(***************************************************************************)
(* Model of the search-query filter scanners (pkg/github/search_utils.go)  *)
(* and of the TranslationStore (pkg/translations).                         *)
(*                                                                         *)
(* A Go string is a sequence of bytes; query[i] is the byte at 0-based     *)
(* index i.  Strings are modelled as sequences of byte values, and         *)
(* indices keep Go's 0-based numbering.                                    *)
(***************************************************************************)
EXTENDS Integers, Sequences, FiniteSets, TLC

VARIABLES
    \* ---- one call of hasFilter / hasSpecificFilter
    fn,           \* which scanner is running
    query,        \* its query argument
    filterType,   \* its filterType argument
    filterValue,  \* its filterValue argument (hasSpecificFilter only)
    pc,           \* "entry", "loop", "done" (returned) or "panic" (index out of range)
    idx,          \* the local idx
    visited,      \* history: the values idx took at the head of the loop body, in order
    result        \* the returned boolean, once pc = "done"

VARIABLES
    \* ---- a TranslationStore and the caller of its methods
    heap,         \* the Go maps alive: reference -> contents (a set of <<key, value>>)
    tsKeys,       \* ts.keys: the reference of the store's map
    exported,     \* the map the caller got from its last ExportTranslationMap (0: none)
    call,         \* history: the last call, its arguments, the store's contents before it
    ret,          \* what the last call returned
    lastWrite     \* history: per key ignoring case, the value last imported,
                  \* "deleted" after a delete, "none" before any write

VARIABLES
    \* ---- goroutines calling the store's methods concurrently
    mu,           \* ts.mu: whether a writer holds it, and how many readers do
    gpc,          \* per goroutine: "idle", "locked" (lock held, body to run),
                  \* "unlock" (body run, deferred unlock pending)
    gcall,        \* per goroutine: the call it is in
    gtodo,        \* per goroutine: the entries its range loop has yet to deliver
    gret,         \* per goroutine: what the body of its call read
    committed,    \* history: the store's contents when a writer last released ts.mu
    soleKey,      \* history: kind "none" before any write; kind "key", with the key
                  \* lower-cased, while every write begun was an
                  \* ImportTranslationKey of it; else kind "mixed"
    importers     \* history: the goroutines that completed such an import

VARIABLES
    \* ---- one call of searchHandler
    hpc,          \* the statement the handler is at; "returned" once it has returned
    searchType,   \* its searchType argument
    hquery,       \* the local query
    howner,       \* the local owner
    hrepo,        \* the local repo
    hres,         \* the *mcp.CallToolResult it returned
    hgoerr,       \* the Go error it returned: "nil" or "error"
    hsent,        \* history: the queries passed to client.Search.Issues, in order
    htrail        \* history: the query parameter as given, the query after the
                  \* is-filter step, which clauses were prepended, what failed

scanVars == <<fn, query, filterType, filterValue, pc, idx, visited, result>>

storeVars == <<heap, tsKeys, exported, call, ret, lastWrite>>

concVars == <<mu, gpc, gcall, gtodo, gret, committed, soleKey, importers>>

handVars == <<hpc, searchType, hquery, howner, hrepo, hres, hgoerr, hsent, htrail>>

vars == <<scanVars, storeVars, concVars, handVars>>

-----------------------------------------------------------------------------
(* Bounds and input sets *)

\* longest query drawn
MaxQueryLen == 6

\* the colon of "filterType:"
Colon == 58

\* '_', the one punctuation byte the boundary rule counts as a word character
Underscore == 95

\* bytes queries are drawn from: 'a', '1', '_', ':', ' ', '('
Alphabet == {97, 49, Underscore, Colon, 32, 40}

\* "a" and "1a"
FilterTypes == {<<97>>, <<49, 97>>}

\* "a" and "1"
FilterValues == {<<97>>, <<49>>}

Queries == UNION {[1..n -> Alphabet] : n \in 0..MaxQueryLen}

-----------------------------------------------------------------------------
(* The standard-library functions the scanners call, on runes below 256 *)

\* unicode.IsSpace
IsSpace(r) == r \in {9, 10, 11, 12, 13, 32, 133, 160}

\* unicode.IsLetter
IsLetter(r) ==
    \/ r \in 65..90
    \/ r \in 97..122
    \/ r \in {170, 181, 186}
    \/ r \in (192..255) \ {215, 247}

\* unicode.IsDigit
IsDigit(r) == r \in 48..57

Min(S) == CHOOSE x \in S : \A y \in S : x <= y

\* strings.Index(s, substr): the first index of substr in s, -1 if absent
Index(s, substr) ==
    LET at == {i \in 0..(Len(s) - Len(substr)) :
                  SubSeq(s, i + 1, i + Len(substr)) = substr}
    IN  IF at = {} THEN -1 ELSE Min(at)

\* whether s[i] is inside the string (Go panics on an index outside it)
InRange(s, i) == i >= 0 /\ i < Len(s)

\* s[i]
ByteAt(s, i) == s[i + 1]

\* whether s[from:] is a legal slice expression
CanSlice(s, from) == from >= 0 /\ from <= Len(s)

\* s[from:]
SliceFrom(s, from) == SubSeq(s, from + 1, Len(s))

-----------------------------------------------------------------------------
(* hasFilter *)

\* prefix := filterType + ":"
Prefix(ft) == Append(ft, Colon)

\* the test on prevChar: whitespace, or neither letter, digit nor '_'
PrevCharValid(prevChar) ==
    IsSpace(prevChar)
        \/ (~IsLetter(prevChar) /\ ~IsDigit(prevChar) /\ prevChar # Underscore)

\* Mutant: the byte after the colon is read without the length check.
FollowedByValueUnchecked(q, after) ==
    IF ~InRange(q, after) THEN "panic"
    ELSE IF ~IsSpace(ByteAt(q, after)) THEN "yes" ELSE "no"

\* Mutant: any byte after the colon counts as a value, whitespace too.
FollowedByAnyByte(q, after) ==
    IF ~(after < Len(q)) THEN "no"
    ELSE IF ~InRange(q, after) THEN "panic"
    ELSE "yes"

\* idx+len(prefix) < len(query) && !unicode.IsSpace(rune(query[idx+len(prefix)]))
\* "yes", "no", or "panic" when the index expression is out of range
FollowedByValue(q, after) ==
    IF ~(after < Len(q)) THEN "no"
    ELSE IF ~InRange(q, after) THEN "panic"
    ELSE IF ~IsSpace(ByteAt(q, after)) THEN "yes" ELSE "no"

\* the if/else of the loop body: "yes" when it returns true, "no" when it
\* falls through to the search for the next occurrence
HasFilterAccepts(q, prefix, i) ==
    IF i = 0 THEN FollowedByValue(q, i + Len(prefix))
    ELSE IF ~InRange(q, i - 1) THEN "panic"
    ELSE IF PrevCharValid(ByteAt(q, i - 1)) THEN FollowedByValue(q, i + Len(prefix))
    ELSE "no"

\* the tail of the loop body: the next value of idx, -1 on break;
\* "panic" when the slice expression is out of range
HasFilterNext(q, prefix, i) ==
    IF ~CanSlice(q, i + Len(prefix)) THEN [kind |-> "panic", idx |-> i]
    ELSE LET remaining == SliceFrom(q, i + Len(prefix))
             nextIdx == Index(remaining, prefix)
         IN  IF nextIdx = -1 THEN [kind |-> "break", idx |-> i]
             ELSE [kind |-> "next", idx |-> i + Len(prefix) + nextIdx]

\* from the call to the first strings.Index and its early return
HasFilterEntry ==
    /\ fn = "hasFilter" /\ pc = "entry"
    /\ LET i == Index(query, Prefix(filterType))
       IN  /\ idx' = i
           /\ IF i = -1
              THEN pc' = "done" /\ result' = FALSE
              ELSE pc' = "loop" /\ UNCHANGED result
    /\ UNCHANGED <<fn, query, filterType, filterValue, visited>>
    /\ UNCHANGED <<storeVars, concVars, handVars>>

\* one iteration of the for loop; a break falls to the final return false
HasFilterLoop ==
    /\ fn = "hasFilter" /\ pc = "loop" /\ idx # -1
    /\ visited' = Append(visited, idx)
    /\ LET prefix == Prefix(filterType)
           acc == HasFilterAccepts(query, prefix, idx)
           nxt == HasFilterNext(query, prefix, idx)
       IN  IF acc = "panic" THEN pc' = "panic" /\ UNCHANGED <<idx, result>>
           ELSE IF acc = "yes" THEN pc' = "done" /\ result' = TRUE /\ UNCHANGED idx
           ELSE IF nxt.kind = "panic" THEN pc' = "panic" /\ UNCHANGED <<idx, result>>
           ELSE IF nxt.kind = "break" THEN pc' = "done" /\ result' = FALSE /\ UNCHANGED idx
           ELSE pc' = "loop" /\ idx' = nxt.idx /\ UNCHANGED result
    /\ UNCHANGED <<fn, query, filterType, filterValue>>
    /\ UNCHANGED <<storeVars, concVars, handVars>>

-----------------------------------------------------------------------------
(* hasSpecificFilter *)

\* target := filterType + ":" + filterValue
Target(ft, fv) == Append(ft, Colon) \o fv

\* Mutant: the underscore is not counted as a word character.
ValidStartCharNoUnderscore(prevChar) ==
    IsSpace(prevChar) \/ (~IsLetter(prevChar) /\ ~IsDigit(prevChar))

\* the test on prevChar that sets validStart
ValidStartChar(prevChar) ==
    IsSpace(prevChar)
        \/ (~IsLetter(prevChar) /\ ~IsDigit(prevChar) /\ prevChar # Underscore)

\* Mutant: a digit after the value is not counted as a word character.
ValidEndCharNoDigit(nextChar) ==
    IsSpace(nextChar) \/ (~IsLetter(nextChar) /\ nextChar # Underscore)

\* the test on nextChar
ValidEndChar(nextChar) ==
    IsSpace(nextChar)
        \/ (~IsLetter(nextChar) /\ ~IsDigit(nextChar) /\ nextChar # Underscore)

\* validStart
ValidStart(q, i) ==
    IF i = 0 THEN "yes"
    ELSE IF ~InRange(q, i - 1) THEN "panic"
    ELSE IF ValidStartChar(ByteAt(q, i - 1)) THEN "yes" ELSE "no"

\* the if validStart block: "yes" when it returns true
ValidEnd(q, endIdx) ==
    IF endIdx = Len(q) THEN "yes"
    ELSE IF ~InRange(q, endIdx) THEN "panic"
    ELSE IF ValidEndChar(ByteAt(q, endIdx)) THEN "yes" ELSE "no"

\* the tail of the loop body: the next value of idx, -1 on break
HasSpecificFilterNext(q, target, i) ==
    IF ~CanSlice(q, i + Len(target)) THEN [kind |-> "panic", idx |-> i]
    ELSE LET remaining == SliceFrom(q, i + Len(target))
             nextIdx == Index(remaining, target)
         IN  IF nextIdx = -1 THEN [kind |-> "break", idx |-> i]
             ELSE [kind |-> "next", idx |-> i + Len(target) + nextIdx]

HasSpecificFilterEntry ==
    /\ fn = "hasSpecificFilter" /\ pc = "entry"
    /\ LET i == Index(query, Target(filterType, filterValue))
       IN  /\ idx' = i
           /\ IF i = -1
              THEN pc' = "done" /\ result' = FALSE
              ELSE pc' = "loop" /\ UNCHANGED result
    /\ UNCHANGED <<fn, query, filterType, filterValue, visited>>
    /\ UNCHANGED <<storeVars, concVars, handVars>>

HasSpecificFilterLoop ==
    /\ fn = "hasSpecificFilter" /\ pc = "loop" /\ idx # -1
    /\ visited' = Append(visited, idx)
    /\ LET target == Target(filterType, filterValue)
           vs == ValidStart(query, idx)
           ve == ValidEnd(query, idx + Len(target))
           nxt == HasSpecificFilterNext(query, target, idx)
       IN  IF vs = "panic" \/ (vs = "yes" /\ ve = "panic")
           THEN pc' = "panic" /\ UNCHANGED <<idx, result>>
           ELSE IF vs = "yes" /\ ve = "yes"
           THEN pc' = "done" /\ result' = TRUE /\ UNCHANGED idx
           ELSE IF nxt.kind = "panic" THEN pc' = "panic" /\ UNCHANGED <<idx, result>>
           ELSE IF nxt.kind = "break" THEN pc' = "done" /\ result' = FALSE /\ UNCHANGED idx
           ELSE pc' = "loop" /\ idx' = nxt.idx /\ UNCHANGED result
    /\ UNCHANGED <<fn, query, filterType, filterValue>>
    /\ UNCHANGED <<storeVars, concVars, handVars>>

-----------------------------------------------------------------------------
(* TranslationStore: keys, values and Go maps *)

\* most entries of a map passed to ImportTranslationMap
MaxMapSize == 2

\* "a", "A" and "b"
Keys == {<<97>>, <<65>>, <<98>>}

Values == {"v1", "v2"}

\* keys the caller writes into a map it got back: "A" and "N"
CallerKeys == {<<65>>, <<78>>}

\* strings.ToUpper, on ASCII
ToUpper(s) == [i \in 1..Len(s) |-> IF s[i] \in 97..122 THEN s[i] - 32 ELSE s[i]]

\* a Go map[string]string is a set of <<key, value>> with no key twice
MapKeys(m) == {e[1] : e \in m}

\* _, exists := m[k]
MapHas(m, k) == k \in MapKeys(m)

\* value := m[k], the zero value "" when k is absent
MapGet(m, k) == IF MapHas(m, k) THEN (CHOOSE e \in m : e[1] = k)[2] ELSE ""

\* m[k] = v
MapPut(m, k, v) == {e \in m : e[1] # k} \cup {<<k, v>>}

\* delete(m, k)
MapDelete(m, k) == {e \in m : e[1] # k}

\* len(m)
MapLen(m) == Cardinality(m)

\* the maps a caller may pass to ImportTranslationMap
InputMaps ==
    {m \in SUBSET (Keys \X Values) :
        /\ Cardinality(m) <= MaxMapSize
        /\ Cardinality(MapKeys(m)) = Cardinality(m)}

\* the orders in which a range loop may deliver the entries of m
RangeOrders(m) ==
    {o \in [1..Cardinality(m) -> m] : \A i, j \in 1..Cardinality(m) : i # j => o[i] # o[j]}

NoTrail == [orig |-> <<>>, afterIs |-> <<>>, is |-> FALSE, repo |-> FALSE, failed |-> "none"]

NoResult == [isError |-> FALSE, text |-> <<>>]

\* no call of searchHandler
NoHandler ==
    /\ hpc = "none"
    /\ searchType = <<>>
    /\ hquery = <<>>
    /\ howner = <<>>
    /\ hrepo = <<>>
    /\ hres = NoResult
    /\ hgoerr = "nil"
    /\ hsent = <<>>
    /\ htrail = NoTrail

\* no goroutine is started
NoConc ==
    /\ mu = [writer |-> FALSE, readers |-> 0]
    /\ gpc = <<>>
    /\ gcall = <<>>
    /\ gtodo = <<>>
    /\ gret = <<>>
    /\ committed = {}
    /\ soleKey = [kind |-> "none", key |-> <<>>]
    /\ importers = {}

\* the state before NewTranslationStore, and in runs that use no store
NoStore ==
    /\ heap = <<>>
    /\ tsKeys = 0
    /\ exported = 0
    /\ call = [op |-> "none", key |-> <<>>, value |-> "", m |-> {}, pre |-> {}]
    /\ ret = [value |-> "", exists |-> FALSE, count |-> 0]
    /\ lastWrite = <<>>

-----------------------------------------------------------------------------
(* TranslationStore: the bodies of the methods, on the contents of ts.keys *)

\* Mutant: the key is stored as given, not upper-cased.
ImportKeyBodyRaw(ks, key, value) == MapPut(ks, key, value)

\* ts.keys[strings.ToUpper(key)] = value
ImportKeyBody(ks, key, value) == MapPut(ks, ToUpper(key), value)

\* value, exists := ts.keys[strings.ToUpper(key)]
ExportKeyBody(ks, key) ==
    [value |-> MapGet(ks, ToUpper(key)), exists |-> MapHas(ks, ToUpper(key)), count |-> 0]

RECURSIVE ImportMapBodyNoUpper(_, _)
\* Mutant: the range loop stores the keys as given, not upper-cased.
ImportMapBodyNoUpper(ks, o) ==
    IF o = <<>> THEN ks
    ELSE ImportMapBodyNoUpper(MapPut(ks, Head(o)[1], Head(o)[2]), Tail(o))

RECURSIVE ImportMapBody(_, _)
\* for k, v := range translations { ts.keys[strings.ToUpper(k)] = v },
\* the range delivering the entries in the order o
ImportMapBody(ks, o) ==
    IF o = <<>> THEN ks
    ELSE ImportMapBody(MapPut(ks, ToUpper(Head(o)[1]), Head(o)[2]), Tail(o))

\* delete(ts.keys, strings.ToUpper(key))
DeleteKeyBody(ks, key) == MapDelete(ks, ToUpper(key))

\* len(ts.keys)
CountBody(ks) == MapLen(ks)

\* Mutant: the store's own map is returned.
ExportMapBodyAlias(h, ks) == [heap |-> h, ref |-> ks]

\* result := make(...); for k, v := range ts.keys { result[k] = v }; return result
\* h holds the live maps; the new map gets a reference not in use
ExportMapBody(h, ks) ==
    LET new == CHOOSE r \in 1..(Cardinality(DOMAIN h) + 1) : r \notin DOMAIN h
    IN  [heap |-> [r \in DOMAIN h \cup {new} |-> IF r = new THEN h[ks] ELSE h[r]],
         ref |-> new]

-----------------------------------------------------------------------------
(* History kept beside the store *)

\* lower-casing, used only to say "equal ignoring letter case"
ToLower(s) == [i \in 1..Len(s) |-> IF s[i] \in 65..90 THEN s[i] + 32 ELSE s[i]]

EqualFold(a, b) == ToLower(a) = ToLower(b)

RECURSIVE WritesInOrder(_, _)
\* lastWrite after the imports of the entries of o, in order
WritesInOrder(lw, o) ==
    IF o = <<>> THEN lw
    ELSE WritesInOrder([lw EXCEPT ![ToLower(Head(o)[1])] = Head(o)[2]], Tail(o))

Called(op, key, value, m) ==
    call' = [op |-> op, key |-> key, value |-> value, m |-> m, pre |-> heap[tsKeys]]

NoRet == [value |-> "", exists |-> FALSE, count |-> 0]

\* the maps the caller still holds, those no longer referenced dropped
Live(h, refs) == [r \in DOMAIN h \cap refs |-> h[r]]

-----------------------------------------------------------------------------
(* TranslationStore: one action per method call, run to completion *)

\* NewTranslationStore
InitStore ==
    /\ tsKeys = 1
    /\ heap = [r \in {1} |-> {}]
    /\ exported = 0
    /\ call = [op |-> "NewTranslationStore", key |-> <<>>, value |-> "", m |-> {}, pre |-> {}]
    /\ ret = NoRet
    /\ lastWrite = [k \in {ToLower(k) : k \in Keys} |-> "none"]

ImportTranslationKey ==
    \E key \in Keys, value \in Values :
        /\ heap' = [heap EXCEPT ![tsKeys] = ImportKeyBody(@, key, value)]
        /\ lastWrite' = [lastWrite EXCEPT ![ToLower(key)] = value]
        /\ Called("ImportTranslationKey", key, value, {})
        /\ ret' = NoRet
        /\ UNCHANGED <<tsKeys, exported>>
        /\ UNCHANGED <<scanVars, concVars, handVars>>

ExportTranslationKey ==
    \E key \in Keys :
        /\ ret' = ExportKeyBody(heap[tsKeys], key)
        /\ Called("ExportTranslationKey", key, "", {})
        /\ UNCHANGED <<heap, tsKeys, exported, lastWrite>>
        /\ UNCHANGED <<scanVars, concVars, handVars>>

ImportTranslationMap ==
    \E m \in InputMaps : \E o \in RangeOrders(m) :
        /\ heap' = [heap EXCEPT ![tsKeys] = ImportMapBody(@, o)]
        /\ lastWrite' = WritesInOrder(lastWrite, o)
        /\ Called("ImportTranslationMap", <<>>, "", m)
        /\ ret' = NoRet
        /\ UNCHANGED <<tsKeys, exported>>
        /\ UNCHANGED <<scanVars, concVars, handVars>>

ExportTranslationMap ==
    /\ LET r == ExportMapBody(Live(heap, {tsKeys}), tsKeys)
       IN  heap' = r.heap /\ exported' = r.ref
    /\ Called("ExportTranslationMap", <<>>, "", {})
    /\ ret' = NoRet
    /\ UNCHANGED <<tsKeys, lastWrite>>
    /\ UNCHANGED <<scanVars, concVars, handVars>>

DeleteTranslationKey ==
    \E key \in Keys :
        /\ heap' = [heap EXCEPT ![tsKeys] = DeleteKeyBody(@, key)]
        /\ lastWrite' = [lastWrite EXCEPT ![ToLower(key)] = "deleted"]
        /\ Called("DeleteTranslationKey", key, "", {})
        /\ ret' = NoRet
        /\ UNCHANGED <<tsKeys, exported>>
        /\ UNCHANGED <<scanVars, concVars, handVars>>

Count ==
    /\ ret' = [value |-> "", exists |-> FALSE, count |-> CountBody(heap[tsKeys])]
    /\ Called("Count", <<>>, "", {})
    /\ UNCHANGED <<heap, tsKeys, exported, lastWrite>>
    /\ UNCHANGED <<scanVars, concVars, handVars>>

\* the caller writes exported[key] = value into the map it got back
CallerPut ==
    /\ exported # 0
    /\ \E key \in CallerKeys, value \in Values :
        /\ heap' = [heap EXCEPT ![exported] = MapPut(@, key, value)]
        /\ Called("CallerPut", key, value, {})
    /\ ret' = NoRet
    /\ UNCHANGED <<tsKeys, exported, lastWrite>>
    /\ UNCHANGED <<scanVars, concVars, handVars>>

\* the caller deletes a key from the map it got back
CallerDelete ==
    /\ exported # 0
    /\ \E key \in CallerKeys :
        /\ heap' = [heap EXCEPT ![exported] = MapDelete(@, key)]
        /\ Called("CallerDelete", key, "", {})
    /\ ret' = NoRet
    /\ UNCHANGED <<tsKeys, exported, lastWrite>>
    /\ UNCHANGED <<scanVars, concVars, handVars>>

NoScan ==
    /\ fn = "none"
    /\ query = <<>>
    /\ filterType = <<>>
    /\ filterValue = <<>>
    /\ pc = "done"
    /\ idx = -1
    /\ visited = <<>>
    /\ result = FALSE

InitStoreSpec == InitStore /\ NoScan /\ NoConc /\ NoHandler

NextStore ==
    \/ ImportTranslationKey
    \/ ExportTranslationKey
    \/ ImportTranslationMap
    \/ ExportTranslationMap
    \/ DeleteTranslationKey
    \/ Count
    \/ CallerPut
    \/ CallerDelete

SpecStore == InitStoreSpec /\ [][NextStore]_vars

-----------------------------------------------------------------------------
(* TranslationStore under concurrent callers: each method is a lock step,  *)
(* the steps of its body under the lock, and the deferred unlock           *)

\* goroutines calling the store
NumProcs == 3

Procs == 1..NumProcs

NoCall == [op |-> "none", key |-> <<>>, value |-> "", m |-> {}]

NoRead == [value |-> "", exists |-> FALSE, count |-> 0, m |-> {}]

\* the calls a goroutine may make
Calls ==
    {[op |-> "ImportTranslationKey", key |-> k, value |-> v, m |-> {}] : k \in Keys, v \in Values}
    \cup {[op |-> "ExportTranslationKey", key |-> k, value |-> "", m |-> {}] : k \in Keys}
    \cup {[op |-> "ImportTranslationMap", key |-> <<>>, value |-> "", m |-> m] : m \in InputMaps}
    \cup {[op |-> "ExportTranslationMap", key |-> <<>>, value |-> "", m |-> {}]}
    \cup {[op |-> "DeleteTranslationKey", key |-> k, value |-> "", m |-> {}] : k \in Keys}
    \cup {[op |-> "Count", key |-> <<>>, value |-> "", m |-> {}]}

\* Mutant: DeleteTranslationKey takes the read lock.
LockModeDeleteShared(op) ==
    IF op \in {"ImportTranslationKey", "ImportTranslationMap"} THEN "Lock" ELSE "RLock"

\* the lock each method takes in its first statement (and defers the release of)
LockMode(op) ==
    IF op \in {"ImportTranslationKey", "ImportTranslationMap", "DeleteTranslationKey"}
    THEN "Lock" ELSE "RLock"

\* sync.RWMutex: Lock returns once no writer and no reader holds the mutex
CanLock(m) == ~m.writer /\ m.readers = 0

\* sync.RWMutex: RLock returns once no writer holds the mutex
CanRLock(m) == ~m.writer

\* the mutex after the lock / unlock of the given mode
Acquire(m, mode) ==
    IF mode = "Lock" THEN [m EXCEPT !.writer = TRUE] ELSE [m EXCEPT !.readers = @ + 1]

Release(m, mode) ==
    IF mode = "Lock" THEN [m EXCEPT !.writer = FALSE] ELSE [m EXCEPT !.readers = @ - 1]

\* soleKey once a call has begun
SoleKeyAfter(sk, c) ==
    IF c.op = "ImportTranslationKey"
    THEN IF sk.kind = "none" \/ (sk.kind = "key" /\ sk.key = ToLower(c.key))
         THEN [kind |-> "key", key |-> ToLower(c.key)]
         ELSE [kind |-> "mixed", key |-> <<>>]
    ELSE IF c.op \in {"ImportTranslationMap", "DeleteTranslationKey"}
    THEN [kind |-> "mixed", key |-> <<>>]
    ELSE sk

\* NewTranslationStore, then NumProcs goroutines about to call
InitConc ==
    /\ InitStore
    /\ NoScan
    /\ NoHandler
    /\ mu = [writer |-> FALSE, readers |-> 0]
    /\ gpc = [p \in Procs |-> "idle"]
    /\ gcall = [p \in Procs |-> NoCall]
    /\ gtodo = [p \in Procs |-> {}]
    /\ gret = [p \in Procs |-> NoRead]
    /\ committed = {}
    /\ soleKey = [kind |-> "none", key |-> <<>>]
    /\ importers = {}

\* ts.mu.Lock() / ts.mu.RLock() at the head of a method: the goroutine blocks
\* until the mutex admits it
GoLock(p) ==
    /\ gpc[p] = "idle"
    /\ \E c \in Calls :
        /\ IF LockMode(c.op) = "Lock" THEN CanLock(mu) ELSE CanRLock(mu)
        /\ mu' = Acquire(mu, LockMode(c.op))
        /\ gcall' = [gcall EXCEPT ![p] = c]
        /\ gtodo' = [gtodo EXCEPT ![p] = c.m]
        /\ soleKey' = SoleKeyAfter(soleKey, c)
        /\ importers' = IF SoleKeyAfter(soleKey, c).kind = "mixed" THEN {} ELSE importers
    /\ gpc' = [gpc EXCEPT ![p] = "locked"]
    /\ gret' = [gret EXCEPT ![p] = NoRead]
    /\ UNCHANGED <<heap, tsKeys, exported, call, ret, lastWrite, committed>>
    /\ UNCHANGED <<scanVars, handVars>>

\* the body of a method other than ImportTranslationMap
GoBody(p) ==
    /\ gpc[p] = "locked"
    /\ gcall[p].op # "ImportTranslationMap"
    /\ LET c == gcall[p]
           ks == heap[tsKeys]
       IN  CASE c.op = "ImportTranslationKey" ->
                  /\ heap' = [heap EXCEPT ![tsKeys] = ImportKeyBody(ks, c.key, c.value)]
                  /\ UNCHANGED gret
             [] c.op = "DeleteTranslationKey" ->
                  /\ heap' = [heap EXCEPT ![tsKeys] = DeleteKeyBody(ks, c.key)]
                  /\ UNCHANGED gret
             [] c.op = "ExportTranslationKey" ->
                  /\ gret' = [gret EXCEPT ![p] =
                                [NoRead EXCEPT !.value = ExportKeyBody(ks, c.key).value,
                                               !.exists = ExportKeyBody(ks, c.key).exists]]
                  /\ UNCHANGED heap
             [] c.op = "ExportTranslationMap" ->
                  /\ gret' = [gret EXCEPT ![p] =
                                [NoRead EXCEPT !.m =
                                    LET r == ExportMapBody(Live(heap, {tsKeys}), tsKeys)
                                    IN  r.heap[r.ref]]]
                  /\ UNCHANGED heap
             [] c.op = "Count" ->
                  /\ gret' = [gret EXCEPT ![p] = [NoRead EXCEPT !.count = CountBody(ks)]]
                  /\ UNCHANGED heap
    /\ gpc' = [gpc EXCEPT ![p] = "unlock"]
    /\ UNCHANGED <<tsKeys, exported, call, ret, lastWrite>>
    /\ UNCHANGED <<mu, gcall, gtodo, committed, soleKey, importers>>
    /\ UNCHANGED <<scanVars, handVars>>

\* one iteration of ImportTranslationMap's range loop, or its exit
GoRange(p) ==
    /\ gpc[p] = "locked"
    /\ gcall[p].op = "ImportTranslationMap"
    /\ IF gtodo[p] = {}
       THEN /\ gpc' = [gpc EXCEPT ![p] = "unlock"]
            /\ UNCHANGED <<heap, gtodo>>
       ELSE \E e \in gtodo[p] :
            /\ heap' = [heap EXCEPT ![tsKeys] = ImportMapBody(@, <<e>>)]
            /\ gtodo' = [gtodo EXCEPT ![p] = @ \ {e}]
            /\ UNCHANGED gpc
    /\ UNCHANGED <<tsKeys, exported, call, ret, lastWrite>>
    /\ UNCHANGED <<mu, gcall, gret, committed, soleKey, importers>>
    /\ UNCHANGED <<scanVars, handVars>>

\* the deferred ts.mu.Unlock() / ts.mu.RUnlock(), and the return
GoUnlock(p) ==
    /\ gpc[p] = "unlock"
    /\ mu' = Release(mu, LockMode(gcall[p].op))
    /\ gpc' = [gpc EXCEPT ![p] = "idle"]
    /\ gcall' = [gcall EXCEPT ![p] = NoCall]
    /\ gret' = [gret EXCEPT ![p] = NoRead]
    /\ committed' = IF LockMode(gcall[p].op) = "Lock" THEN heap[tsKeys] ELSE committed
    /\ importers' =
          IF gcall[p].op = "ImportTranslationKey" /\ soleKey.kind = "key"
          THEN importers \cup {p} ELSE importers
    /\ UNCHANGED <<heap, tsKeys, exported, call, ret, lastWrite>>
    /\ UNCHANGED <<gtodo, soleKey>>
    /\ UNCHANGED <<scanVars, handVars>>

NextConc ==
    \/ \E p \in Procs : GoLock(p)
    \/ \E p \in Procs : GoBody(p)
    \/ \E p \in Procs : GoRange(p)
    \/ \E p \in Procs : GoUnlock(p)

SpecConc == InitConc /\ [][NextConc]_vars

-----------------------------------------------------------------------------
(* The scanners as functions of their arguments, for their callers *)

RECURSIVE HasFilterFrom(_, _, _)
\* the for loop of hasFilter entered with idx = i: "true", "false" or "panic"
HasFilterFrom(q, prefix, i) ==
    LET acc == HasFilterAccepts(q, prefix, i)
        nxt == HasFilterNext(q, prefix, i)
    IN  IF acc = "panic" THEN "panic"
        ELSE IF acc = "yes" THEN "true"
        ELSE IF nxt.kind = "panic" THEN "panic"
        ELSE IF nxt.kind = "break" THEN "false"
        ELSE HasFilterFrom(q, prefix, nxt.idx)

\* hasFilter(query, filterType)
HasFilter(q, ft) ==
    LET i == Index(q, Prefix(ft))
    IN  IF i = -1 THEN "false" ELSE HasFilterFrom(q, Prefix(ft), i)

RECURSIVE HasSpecificFilterFrom(_, _, _)
\* the for loop of hasSpecificFilter entered with idx = i
HasSpecificFilterFrom(q, target, i) ==
    LET vs == ValidStart(q, i)
        ve == ValidEnd(q, i + Len(target))
        nxt == HasSpecificFilterNext(q, target, i)
    IN  IF vs = "panic" \/ (vs = "yes" /\ ve = "panic") THEN "panic"
        ELSE IF vs = "yes" /\ ve = "yes" THEN "true"
        ELSE IF nxt.kind = "panic" THEN "panic"
        ELSE IF nxt.kind = "break" THEN "false"
        ELSE HasSpecificFilterFrom(q, target, nxt.idx)

\* hasSpecificFilter(query, filterType, filterValue)
HasSpecificFilter(q, ft, fv) ==
    LET i == Index(q, Target(ft, fv))
    IN  IF i = -1 THEN "false" ELSE HasSpecificFilterFrom(q, Target(ft, fv), i)

\* "repo"
RepoKey == <<114, 101, 112, 111>>

\* "is"
IsKey == <<105, 115>>

\* hasRepoFilter(query)
HasRepoFilter(q) == HasFilter(q, RepoKey)

-----------------------------------------------------------------------------
(* searchHandler: its inputs *)

\* most tokens of a query parameter
MaxQueryTokens == 3

\* "issue" and "pr"
SearchTypes == {<<105, 115, 115, 117, 101>>, <<112, 114>>}

\* the pieces query parameters are built from:
\* "is:", "issue", "pr", "repo:", " ", "s", "("
Tokens ==
    {<<105, 115, 58>>, <<105, 115, 115, 117, 101>>, <<112, 114>>,
     <<114, 101, 112, 111, 58>>, <<32>>, <<115>>, <<40>>}

RECURSIVE Flatten(_)
Flatten(ts) == IF ts = <<>> THEN <<>> ELSE Head(ts) \o Flatten(Tail(ts))

HandlerQueries ==
    {Flatten(ts) : ts \in UNION {[1..n -> Tokens] : n \in 0..MaxQueryTokens}}

\* owner parameters: absent (the zero value "") or "o"
Owners == {<<>>, <<111>>}

\* repo parameters: absent, "r", or "ais:pr" (a repo name ending in the text
\* of a type filter that does not start at a boundary)
Repos == {<<>>, <<114>>, <<97, 105, 115, 58, 112, 114>>}

\* what RequiredParam / OptionalParam can hand back: a value, or an error
ParamOutcomes(values) ==
    {[ok |-> TRUE, value |-> v] : v \in values} \cup {[ok |-> FALSE, value |-> <<>>]}

-----------------------------------------------------------------------------
(* searchHandler: results (pkg/utils/result.go) *)

\* NewToolResultText
NewToolResultText(message) == [isError |-> FALSE, text |-> <<message>>]

\* Mutant: IsError is left unset.
NewToolResultErrorUnset(message) == [isError |-> FALSE, text |-> <<message>>]

\* NewToolResultError
NewToolResultError(message) == [isError |-> TRUE, text |-> <<message>>]

\* NewToolResultErrorFromErr: the text is message + ": " + err.Error()
NewToolResultErrorFromErr(message, err) ==
    [isError |-> TRUE, text |-> <<message, ": ", err>>]

-----------------------------------------------------------------------------
(* searchHandler: its statements *)

\* fmt.Sprintf("is:%s %s", searchType, query)
IsClause(st, q) == IsKey \o <<Colon>> \o st \o <<32>> \o q

\* fmt.Sprintf("repo:%s/%s %s", owner, repo, query)
RepoClause(o, r, q) == RepoKey \o <<Colon>> \o o \o <<47>> \o r \o <<32>> \o q

\* Mutant: any is: filter in the query suppresses the default one.
IsFilterStepAnyIs(q, st) ==
    IF HasFilter(q, IsKey) = "false"
    THEN [injected |-> TRUE, query |-> IsClause(st, q)]
    ELSE [injected |-> FALSE, query |-> q]

\* if !hasSpecificFilter(query, "is", searchType) { query = "is:..." }
IsFilterStep(q, st) ==
    IF HasSpecificFilter(q, IsKey, st) = "false"
    THEN [injected |-> TRUE, query |-> IsClause(st, q)]
    ELSE [injected |-> FALSE, query |-> q]

\* Mutant: the repo parameter is not tested.
RepoFilterStepOwnerOnly(q, o, r) ==
    IF o # <<>> /\ HasRepoFilter(q) = "false"
    THEN [injected |-> TRUE, query |-> RepoClause(o, r, q)]
    ELSE [injected |-> FALSE, query |-> q]

\* if owner != "" && repo != "" && !hasRepoFilter(query) { query = "repo:..." }
RepoFilterStep(q, o, r) ==
    IF o # <<>> /\ r # <<>> /\ HasRepoFilter(q) = "false"
    THEN [injected |-> TRUE, query |-> RepoClause(o, r, q)]
    ELSE [injected |-> FALSE, query |-> q]

\* return <res>, nil
Return(res, failed) ==
    /\ hres' = res
    /\ hgoerr' = "nil"
    /\ hpc' = "returned"
    /\ htrail' = [htrail EXCEPT !.failed = failed]

\* a call of searchHandler with either search type
InitHandler ==
    /\ hpc = "query"
    /\ searchType \in SearchTypes
    /\ hquery = <<>>
    /\ howner = <<>>
    /\ hrepo = <<>>
    /\ hres = NoResult
    /\ hgoerr = "nil"
    /\ hsent = <<>>
    /\ htrail = NoTrail
    /\ NoScan
    /\ NoStore
    /\ NoConc

\* query, err := RequiredParam[string](args, "query")
HQueryParam ==
    /\ hpc = "query"
    /\ \E out \in ParamOutcomes(HandlerQueries) :
        IF out.ok
        THEN /\ hquery' = out.value
             /\ htrail' = [htrail EXCEPT !.orig = out.value]
             /\ hpc' = "isFilter"
             /\ UNCHANGED <<hres, hgoerr>>
        ELSE /\ Return(NewToolResultError("err.Error()"), "query")
             /\ UNCHANGED hquery
    /\ UNCHANGED <<searchType, howner, hrepo, hsent>>
    /\ UNCHANGED <<scanVars, storeVars, concVars>>

\* the is-filter step
HIsFilter ==
    /\ hpc = "isFilter"
    /\ IF HasSpecificFilter(hquery, IsKey, searchType) = "panic"
       THEN hpc' = "panic" /\ UNCHANGED <<hquery, htrail>>
       ELSE LET r == IsFilterStep(hquery, searchType)
            IN  /\ hquery' = r.query
                /\ htrail' = [htrail EXCEPT !.is = r.injected, !.afterIs = r.query]
                /\ hpc' = "owner"
    /\ UNCHANGED <<searchType, howner, hrepo, hres, hgoerr, hsent>>
    /\ UNCHANGED <<scanVars, storeVars, concVars>>

\* owner, err := OptionalParam[string](args, "owner")
HOwnerParam ==
    /\ hpc = "owner"
    /\ \E out \in ParamOutcomes(Owners) :
        IF out.ok
        THEN /\ howner' = out.value
             /\ hpc' = "repo"
             /\ UNCHANGED <<hres, hgoerr, htrail>>
        ELSE /\ Return(NewToolResultError("err.Error()"), "owner")
             /\ UNCHANGED howner
    /\ UNCHANGED <<searchType, hquery, hrepo, hsent>>
    /\ UNCHANGED <<scanVars, storeVars, concVars>>

\* repo, err := OptionalParam[string](args, "repo")
HRepoParam ==
    /\ hpc = "repo"
    /\ \E out \in ParamOutcomes(Repos) :
        IF out.ok
        THEN /\ hrepo' = out.value
             /\ hpc' = "repoFilter"
             /\ UNCHANGED <<hres, hgoerr, htrail>>
        ELSE /\ Return(NewToolResultError("err.Error()"), "repo")
             /\ UNCHANGED hrepo
    /\ UNCHANGED <<searchType, hquery, howner, hsent>>
    /\ UNCHANGED <<scanVars, storeVars, concVars>>

\* the repo-filter step
HRepoFilter ==
    /\ hpc = "repoFilter"
    /\ IF HasRepoFilter(hquery) = "panic"
       THEN hpc' = "panic" /\ UNCHANGED <<hquery, htrail>>
       ELSE LET r == RepoFilterStep(hquery, howner, hrepo)
            IN  /\ hquery' = r.query
                /\ htrail' = [htrail EXCEPT !.repo = r.injected]
                /\ hpc' = "sort"
    /\ UNCHANGED <<searchType, howner, hrepo, hres, hgoerr, hsent>>
    /\ UNCHANGED <<scanVars, storeVars, concVars>>

\* sort, err := OptionalParam[string](args, "sort")
HSortParam ==
    /\ hpc = "sort"
    /\ \E ok \in BOOLEAN :
        IF ok
        THEN hpc' = "order" /\ UNCHANGED <<hres, hgoerr, htrail>>
        ELSE Return(NewToolResultError("err.Error()"), "sort")
    /\ UNCHANGED <<searchType, hquery, howner, hrepo, hsent>>
    /\ UNCHANGED <<scanVars, storeVars, concVars>>

\* order, err := OptionalParam[string](args, "order")
HOrderParam ==
    /\ hpc = "order"
    /\ \E ok \in BOOLEAN :
        IF ok
        THEN hpc' = "pagination" /\ UNCHANGED <<hres, hgoerr, htrail>>
        ELSE Return(NewToolResultError("err.Error()"), "order")
    /\ UNCHANGED <<searchType, hquery, howner, hrepo, hsent>>
    /\ UNCHANGED <<scanVars, storeVars, concVars>>

\* pagination, err := OptionalPaginationParams(args)
HPaginationParams ==
    /\ hpc = "pagination"
    /\ \E ok \in BOOLEAN :
        IF ok
        THEN hpc' = "client" /\ UNCHANGED <<hres, hgoerr, htrail>>
        ELSE Return(NewToolResultError("err.Error()"), "pagination")
    /\ UNCHANGED <<searchType, hquery, howner, hrepo, hsent>>
    /\ UNCHANGED <<scanVars, storeVars, concVars>>

\* client, err := getClient(ctx)
HGetClient ==
    /\ hpc = "client"
    /\ \E ok \in BOOLEAN :
        IF ok
        THEN hpc' = "search" /\ UNCHANGED <<hres, hgoerr, htrail>>
        ELSE Return(NewToolResultErrorFromErr("errorPrefix: failed to get GitHub client",
                                              "err.Error()"), "client")
    /\ UNCHANGED <<searchType, hquery, howner, hrepo, hsent>>
    /\ UNCHANGED <<scanVars, storeVars, concVars>>

\* result, resp, err := client.Search.Issues(ctx, query, opts)
HSearch ==
    /\ hpc = "search"
    /\ hsent' = Append(hsent, hquery)
    /\ \E ok \in BOOLEAN :
        IF ok
        THEN hpc' = "response" /\ UNCHANGED <<hres, hgoerr, htrail>>
        ELSE Return(NewToolResultErrorFromErr("errorPrefix", "err.Error()"), "search")
    /\ UNCHANGED <<searchType, hquery, howner, hrepo>>
    /\ UNCHANGED <<scanVars, storeVars, concVars>>

\* the status check, io.ReadAll, json.Marshal and the final return; what
\* ghErrors.NewGitHubAPIStatusErrorResponse puts in IsError is not in the source
HResponse ==
    /\ hpc = "response"
    /\ \E statusOK \in BOOLEAN, readOK \in BOOLEAN, marshalOK \in BOOLEAN, flag \in BOOLEAN :
        IF ~statusOK
        THEN IF ~readOK
             THEN Return(NewToolResultErrorFromErr("errorPrefix: failed to read response body",
                                                   "err.Error()"), "readBody")
             ELSE Return([isError |-> flag, text |-> <<"NewGitHubAPIStatusErrorResponse">>],
                         "status")
        ELSE IF ~marshalOK
             THEN Return(NewToolResultErrorFromErr("errorPrefix: failed to marshal response",
                                                   "err.Error()"), "marshal")
             ELSE Return(NewToolResultText("string(r)"), "none")
    /\ UNCHANGED <<searchType, hquery, howner, hrepo, hsent>>
    /\ UNCHANGED <<scanVars, storeVars, concVars>>

NextHandler ==
    \/ HQueryParam
    \/ HIsFilter
    \/ HOwnerParam
    \/ HRepoParam
    \/ HRepoFilter
    \/ HSortParam
    \/ HOrderParam
    \/ HPaginationParams
    \/ HGetClient
    \/ HSearch
    \/ HResponse

SpecHandler == InitHandler /\ [][NextHandler]_vars

-----------------------------------------------------------------------------
(* A call of either scanner on any bounded input *)

InitScan ==
    /\ fn \in {"hasFilter", "hasSpecificFilter"}
    /\ query \in Queries
    /\ filterType \in FilterTypes
    /\ filterValue \in (IF fn = "hasFilter" THEN {<<>>} ELSE FilterValues)
    /\ pc = "entry"
    /\ idx = -1
    /\ visited = <<>>
    /\ result = FALSE
    /\ NoStore
    /\ NoConc
    /\ NoHandler

NextScan ==
    \/ HasFilterEntry
    \/ HasFilterLoop
    \/ HasSpecificFilterEntry
    \/ HasSpecificFilterLoop

SpecScan == InitScan /\ [][NextScan]_vars

-----------------------------------------------------------------------------
(* Vocabulary of the scanner claims, stated on the query alone *)

\* a letter, a digit or an underscore
WordChar(c) == IsLetter(c) \/ IsDigit(c) \/ c = Underscore

\* q contains tok at 0-based index i
OccursAt(q, tok, i) ==
    /\ i >= 0
    /\ i + Len(tok) <= Len(q)
    /\ \A j \in 1..Len(tok) : q[i + j] = tok[j]

Occurrences(q, tok) == {i \in 0..Len(q) : OccursAt(q, tok, i)}

\* i = 0, or the byte at i-1 is not a word character
StartRule(q, i) == i = 0 \/ ~WordChar(q[i])

\* the byte right after the token at i exists and is not whitespace
HasValueAfter(q, tok, i) ==
    i + Len(tok) < Len(q) /\ ~IsSpace(q[i + Len(tok) + 1])

\* the token at i ends the query, or the byte after it is not a word character
EndRule(q, tok, i) ==
    i + Len(tok) = Len(q) \/ ~WordChar(q[i + Len(tok) + 1])

\* the token the running scanner searches for
Token ==
    IF fn = "hasFilter" THEN filterType \o <<Colon>>
    ELSE filterType \o <<Colon>> \o filterValue

\* the occurrences of the token that satisfy the running scanner's rules
GoodOccurrences ==
    {i \in Occurrences(query, Token) :
        /\ StartRule(query, i)
        /\ IF fn = "hasFilter" THEN HasValueAfter(query, Token, i)
           ELSE EndRule(query, Token, i)}

StrictlyIncreasing(s) == \A j \in 1..(Len(s) - 1) : s[j] < s[j + 1]

Returned(f) == fn = f /\ pc = "done"

-----------------------------------------------------------------------------
(* C1 *)

\* C1: hasFilter(query, filterType) returns true if and only if some index i
\* holds filterType+":" with (i = 0 or the byte at i-1 not a letter, digit or
\* underscore) and a byte right after the colon that is not whitespace.
C1_HasFilterContract ==
    Returned("hasFilter") =>
        (result <=>
            \E i \in Occurrences(query, filterType \o <<Colon>>) :
                /\ StartRule(query, i)
                /\ HasValueAfter(query, filterType \o <<Colon>>, i))

\* hasFilter returned true on its second occurrence, the first being rejected
C1_Witness ==
    /\ Returned("hasFilter") /\ result
    /\ Len(visited) = 2
    /\ visited[1] \notin GoodOccurrences

(* C2 *)

\* C2: hasSpecificFilter(query, filterType, filterValue) returns true if and
\* only if some index i holds filterType+":"+filterValue with (i = 0 or the
\* byte at i-1 not a word character) and (the occurrence ends the query or
\* the byte after it is not a word character).
C2_HasSpecificFilterContract ==
    Returned("hasSpecificFilter") =>
        (result <=>
            \E i \in Occurrences(query, filterType \o <<Colon>> \o filterValue) :
                /\ StartRule(query, i)
                /\ EndRule(query, filterType \o <<Colon>> \o filterValue, i))

(* C3 *)

\* C3: in both scanners the loop visits every occurrence of the token in
\* increasing order, overlapping ones included, so the scanner returns true
\* whenever any one occurrence satisfies the boundary rules.
C3_VisitsEveryOccurrence ==
    pc = "done" =>
        /\ StrictlyIncreasing(visited)
        /\ (~result => {visited[j] : j \in 1..Len(visited)} = Occurrences(query, Token))
        /\ (GoodOccurrences # {} => result)

(* C4 *)

\* C4: for both scanners an occurrence preceded by a letter, digit or
\* underscore is never the accepted one, so a query whose occurrences are all
\* preceded by a word character yields false; an occurrence at index 0 or
\* preceded by whitespace or another non-word byte satisfies the start rule,
\* so the first occurrence is accepted when it is such and its value side holds.
C4_StartBoundary ==
    pc = "done" =>
        /\ (result =>
                /\ visited # <<>>
                /\ LET i == visited[Len(visited)]
                   IN  i = 0 \/ ~WordChar(query[i]))
        /\ ((\A i \in Occurrences(query, Token) : i > 0 /\ WordChar(query[i]))
                => ~result)
        /\ (\A i \in Occurrences(query, Token) :
                (/\ i = Min(Occurrences(query, Token))
                 /\ (i = 0 \/ IsSpace(query[i]) \/ ~WordChar(query[i]))
                 /\ IF fn = "hasFilter" THEN HasValueAfter(query, Token, i)
                    ELSE EndRule(query, Token, i))
                => result)

\* a scanner rejected a query whose token stands after an underscore and
\* would otherwise be a filter
C4_Witness ==
    /\ Returned("hasSpecificFilter") /\ ~result
    /\ \E i \in Occurrences(query, Token) :
          /\ i > 0 /\ query[i] = Underscore
          /\ EndRule(query, Token, i)

(* C5 *)

\* C5: hasSpecificFilter returns false when every occurrence of
\* filterType+":"+filterValue is immediately followed by a letter, digit or
\* underscore, whatever precedes those occurrences.
C5_NoPartialValue ==
    Returned("hasSpecificFilter") =>
        ((\A i \in Occurrences(query, Token) :
              i + Len(Token) < Len(query) /\ WordChar(query[i + Len(Token) + 1]))
            => ~result)

\* hasSpecificFilter rejected a token at a valid start that a digit follows
C5_Witness ==
    /\ Returned("hasSpecificFilter") /\ ~result
    /\ \E i \in Occurrences(query, Token) :
          /\ StartRule(query, i)
          /\ i + Len(Token) < Len(query) /\ IsDigit(query[i + Len(Token) + 1])

(* C6 *)

\* C6: both scanners are total: no read outside the query (no panic), the
\* index strictly increases from one iteration to the next so there are at
\* most len(query) iterations, a call that has not returned can take a step,
\* and a call that has returned holds a boolean.
C6_ScannersTotal ==
    /\ pc \in {"entry", "loop", "done"}
    /\ (pc = "loop" => OccursAt(query, Token, idx))
    /\ StrictlyIncreasing(visited)
    /\ (pc = "loop" /\ visited # <<>> => idx > visited[Len(visited)])
    /\ Len(visited) <= Len(query)
    /\ (pc = "done" => result \in BOOLEAN)
    /\ (pc # "done" => ENABLED NextScan)

\* a scanner returned after two iterations, the last on a token that ends
\* the query
C6_Witness ==
    /\ pc = "done"
    /\ Len(visited) = 2
    /\ visited[2] + Len(Token) = Len(query)

-----------------------------------------------------------------------------
(* Vocabulary of the store claims *)

\* the contents of the store's map
StoreMap == heap[tsKeys]

\* what ExportTranslationKey(key) returns in this state
ExportKeyNow(key) == ExportKeyBody(StoreMap, key)

\* the contents of the map ExportTranslationMap() returns in this state
ExportMapNow ==
    LET r == ExportMapBody(Live(heap, {tsKeys}), tsKeys) IN r.heap[r.ref]

(* C7 *)

\* C7: ExportTranslationKey(k) returns (v, true) exactly when the most recent
\* write to a key equal to k ignoring case was an import of v, and not-found
\* when there was none or it was a delete; a delete removes only the entry of
\* that key and lowers Count by that entry alone.
C7_LastWriteWins ==
    /\ \A k \in Keys :
          LET lw == lastWrite[ToLower(k)]
          IN  /\ lw \in Values => ExportKeyNow(k).exists /\ ExportKeyNow(k).value = lw
              /\ lw \in {"none", "deleted"} => ~ExportKeyNow(k).exists
    /\ call.op = "ExportTranslationKey" =>
          LET lw == lastWrite[ToLower(call.key)]
          IN  /\ ret.exists <=> lw \in Values
              /\ ret.exists => ret.value = lw
    /\ call.op = "DeleteTranslationKey" =>
          /\ StoreMap = {e \in call.pre : ~EqualFold(e[1], call.key)}
          /\ CountBody(StoreMap) =
                CountBody(call.pre)
                    - (IF \E e \in call.pre : EqualFold(e[1], call.key) THEN 1 ELSE 0)

\* a delete has just removed one of two entries, and the key given in the
\* other letter case is no longer found
C7_Witness ==
    /\ call.op = "DeleteTranslationKey"
    /\ CountBody(call.pre) = 2 /\ CountBody(StoreMap) = 1
    /\ call.key = <<97>> /\ ~ExportKeyNow(<<65>>).exists
    /\ \E k \in Keys : ExportKeyNow(k).exists

(* C8 *)

\* goroutine p is between the lock and the unlock of a call
Inside(p) == gpc[p] \in {"locked", "unlock"}

\* p is inside a call that writes the map
WriterInside(p) ==
    /\ Inside(p)
    /\ gcall[p].op \in {"ImportTranslationKey", "ImportTranslationMap", "DeleteTranslationKey"}

\* p is inside a call that only reads the map
ReaderInside(p) == Inside(p) /\ ~WriterInside(p)

\* the maps call c, run alone from the contents ks, can leave in the store
CallOutcomes(c, ks) ==
    CASE c.op = "ImportTranslationKey" -> {ImportKeyBody(ks, c.key, c.value)}
      [] c.op = "DeleteTranslationKey" -> {DeleteKeyBody(ks, c.key)}
      [] c.op = "ImportTranslationMap" -> {ImportMapBody(ks, o) : o \in RangeOrders(c.m)}
      [] OTHER -> {ks}

\* what the body of read call c reads, run alone on the contents ks
ReadOf(c, ks) ==
    CASE c.op = "ExportTranslationKey" ->
            [NoRead EXCEPT !.value = MapGet(ks, ToUpper(c.key)),
                           !.exists = MapHas(ks, ToUpper(c.key))]
      [] c.op = "ExportTranslationMap" -> [NoRead EXCEPT !.m = ks]
      [] c.op = "Count" -> [NoRead EXCEPT !.count = Cardinality(ks)]
      [] OTHER -> NoRead

\* C8: under any interleaving of the six methods a writer is never inside
\* the map together with another writer or a reader; each call takes effect
\* atomically: a reader sees and returns the contents left by the last
\* completed write, never a partly applied ImportTranslationMap, and a
\* writer leaves what its call does to those contents; and once every
\* goroutine has imported the same key, nothing else having been written,
\* the store holds exactly one entry, the one for that key.
C8_ThreadSafe ==
    /\ \A p, q \in Procs : (p # q /\ WriterInside(p)) => ~Inside(q)
    /\ \A p \in Procs :
          /\ ReaderInside(p) => StoreMap = committed
          /\ (ReaderInside(p) /\ gpc[p] = "unlock") => gret[p] = ReadOf(gcall[p], committed)
          /\ (WriterInside(p) /\ gpc[p] = "unlock") =>
                StoreMap \in CallOutcomes(gcall[p], committed)
    /\ (\A p \in Procs : ~Inside(p)) => StoreMap = committed
    /\ (/\ soleKey.kind = "key"
        /\ importers = Procs
        /\ \A p \in Procs : gpc[p] = "idle")
          => /\ CountBody(StoreMap) = 1
             /\ \A e \in StoreMap : EqualFold(e[1], soleKey.key)

\* every goroutine has imported the same key and returned, no other write
\* was made, and the store holds one entry, under the upper-cased key
C8_Witness ==
    /\ soleKey.kind = "key"
    /\ importers = Procs
    /\ \A p \in Procs : gpc[p] = "idle"
    /\ StoreMap = {<<<<65>>, "v2">>}
    /\ committed = StoreMap

(* C9 *)

\* C9: after ImportTranslationMap(m) on an empty store, Count() is the number
\* of entries of m, and for every entry (k, v) of m ExportTranslationKey(k)
\* returns (v, true) and ExportTranslationMap() holds v under the upper-cased k.
C9_ImportMapOnEmpty ==
    (call.op = "ImportTranslationMap" /\ call.pre = {}) =>
        /\ CountBody(StoreMap) = Cardinality(call.m)
        /\ \A e \in call.m :
              /\ ExportKeyNow(e[1]).exists /\ ExportKeyNow(e[1]).value = e[2]
              /\ MapHas(ExportMapNow, ToUpper(e[1]))
              /\ MapGet(ExportMapNow, ToUpper(e[1])) = e[2]

\* the entries of m whose key equals key ignoring case
SameKeyEntries(m, key) == {e \in m : EqualFold(e[1], key)}

\* C9 as amended: after ImportTranslationMap(m) on an empty store, Count() is
\* the number of keys of m that are distinct ignoring case; for every entry
\* (k, v) of m whose key no other key of m equals ignoring case,
\* ExportTranslationKey(k) returns (v, true) and ExportTranslationMap() holds v
\* under the upper-cased k; for keys of m equal ignoring case both return the
\* value of one of those entries.
C9_ImportMapOnEmptyFolded ==
    (call.op = "ImportTranslationMap" /\ call.pre = {}) =>
        /\ CountBody(StoreMap) = Cardinality({ToLower(e[1]) : e \in call.m})
        /\ \A e \in call.m :
              /\ ExportKeyNow(e[1]).exists
              /\ MapHas(ExportMapNow, ToUpper(e[1]))
              /\ MapGet(ExportMapNow, ToUpper(e[1])) = ExportKeyNow(e[1]).value
              /\ \E f \in SameKeyEntries(call.m, e[1]) : ExportKeyNow(e[1]).value = f[2]
              /\ SameKeyEntries(call.m, e[1]) = {e} => ExportKeyNow(e[1]).value = e[2]

\* a map of two entries with different values, its keys distinct ignoring
\* case, has just been imported into an empty store
C9_Witness ==
    /\ call.op = "ImportTranslationMap" /\ call.pre = {}
    /\ Cardinality(call.m) = 2
    /\ Cardinality({ToLower(e[1]) : e \in call.m}) = 2
    /\ Cardinality({e[2] : e \in call.m}) = 2
    /\ CountBody(StoreMap) = 2

(* C10 *)

\* C10: ExportTranslationMap returns a copy of the store's contents at the
\* moment of the call: a write of the caller to the returned map leaves the
\* store's map (keys, values, Count) as it was, and a later write to the
\* store leaves the returned map as it was.  (Every step is a call, and
\* call'.op names it.)
C10_ExportIsCopy ==
    [][ /\ (call'.op = "ExportTranslationMap" =>
              /\ heap'[exported'] = heap[tsKeys]
              /\ heap'[tsKeys] = heap[tsKeys])
        /\ (call'.op \in {"CallerPut", "CallerDelete"} =>
              /\ heap'[tsKeys] = heap[tsKeys]
              /\ CountBody(heap'[tsKeys]) = CountBody(heap[tsKeys]))
        /\ ((/\ call'.op \in {"ImportTranslationKey", "ImportTranslationMap",
                               "DeleteTranslationKey"}
             /\ exported # 0)
              => heap'[exported] = heap[exported])
      ]_vars

\* the caller has just added an entry to the map it got back, and the store
\* still holds what it held before
C10_Witness ==
    /\ call.op = "CallerPut" /\ call.key = <<78>>
    /\ exported # 0
    /\ MapHas(heap[exported], <<78>>)
    /\ StoreMap = call.pre /\ CountBody(StoreMap) = 2

-----------------------------------------------------------------------------
(* searchHandler *)

\* the is-filter step has run
IsStepDone ==
    \/ hpc \in {"owner", "repo", "repoFilter", "sort", "order", "pagination",
                "client", "search", "response"}
    \/ hpc = "returned" /\ htrail.failed # "query"

\* the repo-filter step has run
RepoStepDone ==
    \/ hpc \in {"sort", "order", "pagination", "client", "search", "response"}
    \/ hpc = "returned" /\ htrail.failed \notin {"query", "owner", "repo"}

\* C11: searchHandler prepends "is:<searchType> " to the query parameter
\* exactly when hasSpecificFilter(query, "is", searchType) is false on it, a
\* query that already satisfies it is left as it is by that step, and every
\* query passed to client.Search.Issues satisfies
\* hasSpecificFilter(q, "is", searchType), the repo clause included.
C11_DefaultTypeFilter ==
    /\ IsStepDone =>
        /\ htrail.is <=> (HasSpecificFilter(htrail.orig, IsKey, searchType) = "false")
        /\ htrail.is => htrail.afterIs = <<105, 115, 58>> \o searchType \o <<32>> \o htrail.orig
        /\ ~htrail.is => htrail.afterIs = htrail.orig
        /\ HasSpecificFilter(htrail.afterIs, IsKey, searchType) = "true"
    /\ \A i \in 1..Len(hsent) :
        HasSpecificFilter(hsent[i], IsKey, searchType) = "true"

\* the search was invoked with both clauses prepended to a query that carried
\* an is: filter of another value, behind a repo name that ends in "is:pr"
C11_Witness ==
    /\ Len(hsent) = 1
    /\ htrail.is /\ htrail.repo
    /\ HasFilter(htrail.orig, IsKey) = "true"
    /\ hrepo = <<97, 105, 115, 58, 112, 114>>

\* the search was invoked with a query that already had the type filter and
\* got no second one
C11_WitnessKept ==
    /\ Len(hsent) = 1
    /\ ~htrail.is
    /\ hsent[1] = htrail.orig

\* C12: searchHandler prepends "repo:<owner>/<repo> " exactly when owner and
\* repo are both non-empty and hasRepoFilter is false on the query left by the
\* is-filter step; otherwise the repo step leaves the query unchanged; the
\* query sent is the one the repo step left, and when both clauses were
\* prepended it is "repo:<owner>/<repo> is:<searchType> <original query>".
C12_RepoClause ==
    /\ RepoStepDone =>
        /\ htrail.repo <=>
            (howner # <<>> /\ hrepo # <<>> /\ HasRepoFilter(htrail.afterIs) = "false")
        /\ htrail.repo =>
            hquery = <<114, 101, 112, 111, 58>> \o howner \o <<47>> \o hrepo
                        \o <<32>> \o htrail.afterIs
        /\ ~htrail.repo => hquery = htrail.afterIs
    /\ \A i \in 1..Len(hsent) :
        /\ hsent[i] = hquery
        /\ (htrail.is /\ htrail.repo) =>
            hsent[i] = <<114, 101, 112, 111, 58>> \o howner \o <<47>> \o hrepo
                          \o <<32, 105, 115, 58>> \o searchType \o <<32>> \o htrail.orig

\* the search was invoked with both clauses prepended
C12_Witness ==
    /\ Len(hsent) = 1
    /\ htrail.is /\ htrail.repo
    /\ htrail.orig # <<>>

\* owner and repo were given, the query already had a repo filter, and the
\* search was invoked with the query the is-filter step left
C12_WitnessKept ==
    /\ Len(hsent) = 1
    /\ howner # <<>> /\ hrepo # <<>>
    /\ ~htrail.repo
    /\ hsent[1] = htrail.afterIs

\* C13: searchHandler returns a nil Go error on every path; a failure of the
\* query, owner, repo, sort, order or pagination parameter or of getClient
\* returns a result with IsError set and the search is never invoked; a failure
\* of the search, of reading the body or of marshalling returns a result with
\* IsError set; the success result has IsError unset; the search is invoked at
\* most once.  (The result of a non-200 status is built outside the source and
\* is constrained here only in its nil Go error.)
C13_ErrorsInResult ==
    /\ hgoerr = "nil"
    /\ Len(hsent) <= 1
    /\ hpc = "returned" =>
        /\ htrail.failed \in {"query", "owner", "repo", "sort", "order", "pagination", "client"}
            => hres.isError /\ hsent = <<>>
        /\ htrail.failed \in {"search", "readBody", "marshal"}
            => hres.isError /\ Len(hsent) = 1
        /\ htrail.failed = "none" => ~hres.isError /\ Len(hsent) = 1

\* the handler returned because an optional parameter failed validation, after
\* both query rewrites would have applied, and the search was not invoked
C13_Witness ==
    /\ hpc = "returned"
    /\ htrail.failed = "order"
    /\ htrail.is /\ htrail.repo
    /\ hres.isError
    /\ hsent = <<>>

====
